---------------------------- MODULE Spec2Model ----------------------------
(***************************************************************************)
(* Order lifecycle, checkout, stock ledger and coupon usage of the         *)
(* vibebites backend (models/Order.js, models/Product.js,                  *)
(* models/Coupon.js and the orders / products routes).                     *)
(*                                                                         *)
(* Money: product prices, coupon magnitudes and the shipping settings are  *)
(* whole rupees; the amounts stored on an order (subtotal, shippingCost,   *)
(* discount, total) are held in hundredths of a rupee, so that the         *)
(* percentage rule  subtotal * discount / 100  is exact.                   *)
(***************************************************************************)
EXTENDS Integers, Sequences, FiniteSets, TLC

VARIABLES
    products,   \* Product collection: id -> document
    orders,     \* Order collection: sequence of persisted order documents
    coupons,    \* Coupon collection: code -> document
    config,     \* config/config.js object (process-wide, mutable)
    req,        \* POST /api/orders requests in flight: id -> handler frame
    redeem,     \* callers of Coupon.incrementUsage: id -> frame
    last        \* the last model-method call: operation, inputs, outcome

vars == <<products, orders, coupons, config, req, redeem, last>>

----------------------------------------------------------------------------
(* Bounds of the model *)

MaxItems == 2       \* line items per request
MaxQty == 2         \* quantity per line item
MaxStock == 2       \* largest stock count set by a stock update
MaxUsed == 3        \* cap on a coupon's usedCount
NumRequests == 2    \* concurrent requests

(* Program constants *)

shippingFee == 49
freeShippingThreshold == 500
Hundred == 100
PadWidth == 4

Requests == 1..NumRequests
\* undefined, for a string-valued field, a number-valued field (held as a
\* sequence of at most one number), the order number and a sub-document.
Unset == "undefined"
NoNumber == <<>>
NoOrderNumber == <<>>
NoCoupon == [absent |-> TRUE]
NoDoc == [absent |-> TRUE]
Now == "now"

Min(a, b) == IF a < b THEN a ELSE b
Max(a, b) == IF a > b THEN a ELSE b

----------------------------------------------------------------------------
(* models/Product.js *)

\* Array.prototype.find over product.sizes: index of the first entry with
\* this label, 0 when there is none.
FindSize(sizes, size) ==
    IF \E i \in 1..Len(sizes) : sizes[i].size = size
    THEN CHOOSE i \in 1..Len(sizes) :
            /\ sizes[i].size = size
            /\ \A j \in 1..(i - 1) : sizes[j].size # size
    ELSE 0

AnyInStock(sizes) == \E i \in 1..Len(sizes) : sizes[i].stock > 0

IsInStock(product, size) ==
    LET i == FindSize(product.sizes, size)
    IN  i # 0 /\ product.sizes[i].stock > 0

\* Mutant: the subtraction without the floor at zero.
UpdateStock_NoFloor(product, size, quantity) ==
    LET i == FindSize(product.sizes, size)
    IN  IF i # 0
        THEN LET sizes == [product.sizes EXCEPT
                              ![i].stock = product.sizes[i].stock - quantity]
             IN  [doc |-> [product EXCEPT !.sizes = sizes,
                                          !.inStock = AnyInStock(sizes)],
                  returned |-> TRUE]
        ELSE [doc |-> product, returned |-> FALSE]

\* The document after updateStock(size, quantity) and the value returned.
UpdateStock(product, size, quantity) ==
    LET i == FindSize(product.sizes, size)
    IN  IF i # 0
        THEN LET sizes == [product.sizes EXCEPT
                              ![i].stock = Max(0, product.sizes[i].stock - quantity)]
             IN  [doc |-> [product EXCEPT !.sizes = sizes,
                                          !.inStock = AnyInStock(sizes)],
                  returned |-> TRUE]
        ELSE [doc |-> product, returned |-> FALSE]

----------------------------------------------------------------------------
(* models/Order.js: schema *)

OrderStatuses ==
    {"pending", "confirmed", "processing", "shipped", "delivered",
     "cancelled", "returned"}

\* A nested path of the schema is always present on a document and takes
\* its declared defaults on construction: status defaults to 'pending'.
DefaultCancelRequest ==
    [requestedAt |-> Unset, reason |-> Unset, description |-> Unset,
     status |-> "pending", processedAt |-> Unset, processedBy |-> Unset]

DefaultReturnRequest ==
    [requestedAt |-> Unset, reason |-> Unset, description |-> Unset,
     status |-> "pending", processedAt |-> Unset, processedBy |-> Unset,
     returnTrackingNumber |-> Unset, refundAmount |-> NoNumber,
     refundMethod |-> Unset]

\* new Order({...}) as the checkout handler builds it, schema defaults
\* filled in; orderNumber is left to the pre-save hook.
NewOrder(items, subtotal, shippingCost, discount, total, appliedCoupon) ==
    [orderNumber |-> NoOrderNumber,
     items |-> items,
     paymentStatus |-> "pending",
     orderStatus |-> "pending",
     subtotal |-> subtotal,
     shippingCost |-> shippingCost,
     discount |-> discount,
     total |-> total,
     appliedCoupon |-> appliedCoupon,
     shippingDetails |-> [shippedAt |-> Unset, deliveredAt |-> Unset],
     notes |-> Unset,
     cancelRequest |-> DefaultCancelRequest,
     returnRequest |-> DefaultReturnRequest]

----------------------------------------------------------------------------
(* models/Order.js: order number (pre-save hook) *)

DigitChars == <<"0", "1", "2", "3", "4", "5", "6", "7", "8", "9">>

\* String(n) for n >= 0, as a sequence of characters.
RECURSIVE ToDigits(_)
ToDigits(n) ==
    IF n < 10 THEN <<DigitChars[n + 1]>>
    ELSE ToDigits(n \div 10) \o <<DigitChars[(n % 10) + 1]>>

\* String.prototype.padStart(width, fill)
RECURSIVE PadStart(_, _, _)
PadStart(s, width, fill) ==
    IF Len(s) >= width THEN s ELSE PadStart(<<fill>> \o s, width, fill)

\* `VB${year}${month}${day}${String(orderCount + 1).padStart(4, '0')}`
OrderNumber(date, orderCount) ==
    <<"V", "B">> \o ToDigits(date.year)
                 \o PadStart(ToDigits(date.month), 2, "0")
                 \o PadStart(ToDigits(date.day), 2, "0")
                 \o PadStart(ToDigits(orderCount + 1), PadWidth, "0")

\* The hook's assignment once countDocuments has answered.
AssignOrderNumber(order, date, orderCount) ==
    IF order.orderNumber = NoOrderNumber
    THEN [order EXCEPT !.orderNumber = OrderNumber(date, orderCount)]
    ELSE order

----------------------------------------------------------------------------
(* models/Order.js: calculateTotals *)

RECURSIVE SumItems(_)
SumItems(items) ==
    IF items = <<>> THEN 0
    ELSE items[1].price * items[1].quantity + SumItems(Tail(items))

\* Mutant: free shipping only above the threshold.
ShippingCost_Above(subtotal, cfg) ==
    IF subtotal > Hundred * cfg.freeShippingThreshold
    THEN 0 ELSE Hundred * cfg.shippingFee

ShippingCost(subtotal, cfg) ==
    IF subtotal >= Hundred * cfg.freeShippingThreshold
    THEN 0 ELSE Hundred * cfg.shippingFee

\* discountAmount of a coupon snapshot against a subtotal (hundredths).
SnapshotDiscount(coupon, subtotal) ==
    IF coupon.type = "percentage"
    THEN (subtotal * coupon.discount) \div Hundred
    ELSE Hundred * coupon.discount

\* Mutant: a shipping cost already on the order is kept.
CalculateTotals_KeepsShipping(order, cfg) ==
    LET subtotal == Hundred * SumItems(order.items)
        shipping == IF order.shippingCost # 0 THEN order.shippingCost
                    ELSE ShippingCost(subtotal, cfg)
        discountAmount ==
            IF order.appliedCoupon # NoCoupon /\ order.appliedCoupon.code # Unset
            THEN SnapshotDiscount(order.appliedCoupon, subtotal)
            ELSE 0
        discount == Min(discountAmount, subtotal)
    IN  [order EXCEPT !.subtotal = subtotal,
                      !.shippingCost = shipping,
                      !.discount = discount,
                      !.total = subtotal + shipping - discount]

CalculateTotals(order, cfg) ==
    LET subtotal == Hundred * SumItems(order.items)
        shipping == ShippingCost(subtotal, cfg)
        discountAmount ==
            IF order.appliedCoupon # NoCoupon /\ order.appliedCoupon.code # Unset
            THEN SnapshotDiscount(order.appliedCoupon, subtotal)
            ELSE 0
        discount == Min(discountAmount, subtotal)
    IN  [order EXCEPT !.subtotal = subtotal,
                      !.shippingCost = shipping,
                      !.discount = discount,
                      !.total = subtotal + shipping - discount]

----------------------------------------------------------------------------
(* models/Order.js: lifecycle methods.  Each yields the document as the   *)
(* method leaves it (and saves it) and whether it returned or threw.      *)

Returned(order) == [ok |-> TRUE, error |-> "", doc |-> order]
Threw(order, message) == [ok |-> FALSE, error |-> message, doc |-> order]

\* "if (notes) this.notes = notes": the empty string leaves notes alone.
WithNotes(order, notes) ==
    IF notes # "" THEN [order EXCEPT !.notes = notes] ELSE order

UpdateStatus(order, newStatus, notes) ==
    LET o1 == WithNotes([order EXCEPT !.orderStatus = newStatus], notes)
        o2 == CASE newStatus = "shipped" ->
                       [o1 EXCEPT !.shippingDetails.shippedAt = Now]
                [] newStatus = "delivered" ->
                       [o1 EXCEPT !.shippingDetails.deliveredAt = Now]
                [] OTHER -> o1
    IN  Returned(o2)

CancellableStatuses == {"pending", "confirmed", "processing"}

\* Mutant: the guard also lets a shipped order through.
RequestCancellation_AllowsShipped(order, reason, description) ==
    IF order.orderStatus \notin CancellableStatuses \cup {"shipped"}
    THEN Threw(order, "Order cannot be cancelled at this stage")
    ELSE Returned([order EXCEPT !.cancelRequest =
            [requestedAt |-> Now, reason |-> reason,
             description |-> description, status |-> "pending",
             processedAt |-> Unset, processedBy |-> Unset]])

RequestCancellation(order, reason, description) ==
    IF order.orderStatus \notin CancellableStatuses
    THEN Threw(order, "Order cannot be cancelled at this stage")
    ELSE Returned([order EXCEPT !.cancelRequest =
            [requestedAt |-> Now, reason |-> reason,
             description |-> description, status |-> "pending",
             processedAt |-> Unset, processedBy |-> Unset]])

\* Mutant: the guard also lets a shipped order through.
RequestReturn_AllowsShipped(order, reason, description) ==
    IF order.orderStatus \notin {"delivered", "shipped"}
    THEN Threw(order, "Returns can only be requested for delivered orders")
    ELSE Returned([order EXCEPT !.returnRequest =
            [requestedAt |-> Now, reason |-> reason,
             description |-> description, status |-> "pending",
             processedAt |-> Unset, processedBy |-> Unset,
             returnTrackingNumber |-> Unset, refundAmount |-> NoNumber,
             refundMethod |-> Unset]])

RequestReturn(order, reason, description) ==
    IF order.orderStatus # "delivered"
    THEN Threw(order, "Returns can only be requested for delivered orders")
    ELSE Returned([order EXCEPT !.returnRequest =
            [requestedAt |-> Now, reason |-> reason,
             description |-> description, status |-> "pending",
             processedAt |-> Unset, processedBy |-> Unset,
             returnTrackingNumber |-> Unset, refundAmount |-> NoNumber,
             refundMethod |-> Unset]])

\* Mutant: the notes are written before the guard.
ProcessCancelRequest_NotesFirst(order, approved, processedBy, notes) ==
    LET o0 == WithNotes(order, notes)
    IN  IF order.cancelRequest.status # "pending"
        THEN Threw(o0, "No pending cancellation request found")
        ELSE LET o1 == [o0 EXCEPT
                          !.cancelRequest.status =
                              IF approved THEN "approved" ELSE "rejected",
                          !.cancelRequest.processedAt = Now,
                          !.cancelRequest.processedBy = processedBy]
             IN  Returned(IF approved
                          THEN [o1 EXCEPT !.orderStatus = "cancelled",
                                          !.paymentStatus = "refunded"]
                          ELSE o1)

\* "!this.cancelRequest" never holds: the nested path is always present.
ProcessCancelRequest(order, approved, processedBy, notes) ==
    IF order.cancelRequest.status # "pending"
    THEN Threw(order, "No pending cancellation request found")
    ELSE LET o1 == [order EXCEPT
                      !.cancelRequest.status =
                          IF approved THEN "approved" ELSE "rejected",
                      !.cancelRequest.processedAt = Now,
                      !.cancelRequest.processedBy = processedBy]
             o2 == IF approved
                   THEN [o1 EXCEPT !.orderStatus = "cancelled",
                                   !.paymentStatus = "refunded"]
                   ELSE o1
         IN  Returned(WithNotes(o2, notes))

ProcessReturnRequest(order, approved, processedBy, refundAmount, refundMethod, returnTrackingNumber, notes) ==
    IF order.returnRequest.status # "pending"
    THEN Threw(order, "No pending return request found")
    ELSE LET o1 == [order EXCEPT
                      !.returnRequest.status =
                          IF approved THEN "approved" ELSE "rejected",
                      !.returnRequest.processedAt = Now,
                      !.returnRequest.processedBy = processedBy]
             o2 == IF approved
                   THEN [o1 EXCEPT
                           !.orderStatus = "returned",
                           !.returnRequest.returnTrackingNumber =
                               returnTrackingNumber,
                           !.returnRequest.refundAmount = <<refundAmount>>,
                           !.returnRequest.refundMethod = refundMethod]
                   ELSE o1
         IN  Returned(WithNotes(o2, notes))

----------------------------------------------------------------------------
(* models/Coupon.js *)

\* incrementUsage(): the document after "this.usedCount += 1".
IncrementUsage(coupon) == [coupon EXCEPT !.usedCount = coupon.usedCount + 1]

\* On a coupon document, discount is a whole number (percent, or rupees for
\* a fixed coupon); minOrderAmount and maxDiscount are held in hundredths
\* of a rupee, so the code's maxDiscount of -1 (no cap) is NoMaxDiscount.
NoMaxDiscount == -Hundred
NoUser == "null"

\* Mutant: validUntil itself is already too late.
IsValid_ExclusiveEnd(coupon, now) ==
    IF ~coupon.isActive THEN FALSE
    ELSE IF now < coupon.validFrom \/ now >= coupon.validUntil THEN FALSE
    ELSE IF coupon.usageLimit # -1 /\ coupon.usedCount >= coupon.usageLimit
         THEN FALSE
    ELSE TRUE

\* isValid(), with the value its "new Date()" yields.
IsValid(coupon, now) ==
    IF ~coupon.isActive THEN FALSE
    ELSE IF now < coupon.validFrom \/ now > coupon.validUntil THEN FALSE
    ELSE IF coupon.usageLimit # -1 /\ coupon.usedCount >= coupon.usageLimit
         THEN FALSE
    ELSE TRUE

\* canBeApplied(orderAmount, userId = null, isFirstTime = false)
CanBeApplied(coupon, orderAmount, userId, isFirstTime, now) ==
    IF ~IsValid(coupon, now) THEN FALSE
    ELSE IF orderAmount < coupon.minOrderAmount THEN FALSE
    ELSE IF coupon.isFirstTimeOnly /\ ~isFirstTime THEN FALSE
    ELSE IF userId # NoUser /\ userId \in coupon.excludedUsers THEN FALSE
    ELSE IF /\ coupon.applicableUsers # {}
            /\ userId # NoUser
            /\ userId \notin coupon.applicableUsers
         THEN FALSE
    ELSE TRUE

\* items.filter(item => categories.includes(item.category)).reduce(...)
RECURSIVE SumMatching(_, _)
SumMatching(items, categories) ==
    IF items = <<>> THEN 0
    ELSE (IF items[1].category \in categories
          THEN items[1].price * items[1].quantity ELSE 0)
         + SumMatching(Tail(items), categories)

\* calculateDiscount(orderAmount, items = []), in hundredths.
CalculateDiscount(coupon, orderAmount, items) ==
    LET applicableAmount ==
            IF coupon.categories # {} /\ Len(items) > 0
            THEN Hundred * SumMatching(items, coupon.categories)
            ELSE orderAmount
        discountAmount ==
            IF coupon.type = "percentage"
            THEN (applicableAmount * coupon.discount) \div Hundred
            ELSE Hundred * coupon.discount
        capped ==
            IF coupon.maxDiscount # NoMaxDiscount
            THEN Min(discountAmount, coupon.maxDiscount)
            ELSE discountAmount
    IN  Min(capped, applicableAmount)

----------------------------------------------------------------------------
(* Checkout: POST /api/orders, one frame per request in flight.  A step   *)
(* is what the handler does between two awaits.                            *)

ProductIds == {"p1"}
SizeLabels == {"50g", "200g", "500g"}      \* "500g" is on no product
Today == [year |-> 2025, month |-> 4, day |-> 17]

InitialProduct ==
    [sizes |-> << [size |-> "50g", price |-> 40, stock |-> 1],
                  [size |-> "200g", price |-> 300, stock |-> MaxStock] >>,
     inStock |-> TRUE]

\* req.body.appliedCoupon: absent, or a snapshot the schema accepts (a
\* code or none, either type, a magnitude below and above 100).
AppliedCoupons ==
    { NoCoupon,
      [code |-> "SAVE10", type |-> "percentage", discount |-> 10],
      [code |-> "SAVE10", type |-> "percentage", discount |-> 150],
      [code |-> "SAVE10", type |-> "fixed", discount |-> 150],
      [code |-> Unset, type |-> "fixed", discount |-> 10] }

InitialConfig ==
    [shippingFee |-> shippingFee,
     freeShippingThreshold |-> freeShippingThreshold]

IdleFrame ==
    [pc |-> "items", orderItems |-> <<>>, order |-> NoDoc, k |-> 0,
     product |-> NoDoc, result |-> Unset]

Responded(result) == [IdleFrame EXCEPT !.pc = "done", !.result = result]

\* First loop, one item: Product.findById, the isInStock check, the push.
CheckItem(r) ==
    /\ req[r].pc = "items"
    /\ Len(req[r].orderItems) < MaxItems
    /\ \E p \in ProductIds, size \in SizeLabels, quantity \in 1..MaxQty :
        LET product == products[p]
        IN  IF ~IsInStock(product, size)
            THEN req' = [req EXCEPT ![r] = Responded("out of stock")]
            ELSE LET sizeObj == product.sizes[FindSize(product.sizes, size)]
                 IN  req' = [req EXCEPT ![r].orderItems =
                                Append(@, [product |-> p, size |-> size,
                                           price |-> sizeObj.price,
                                           quantity |-> quantity])]
    /\ UNCHANGED <<products, orders, coupons, config, redeem, last>>

\* Mutant: the handler's totals without the cap at the subtotal.
HandlerOrder_NoCap(orderItems, appliedCoupon, cfg) ==
    LET subtotal == Hundred * SumItems(orderItems)
        shippingCost == ShippingCost(subtotal, cfg)
        discount ==
            IF appliedCoupon # NoCoupon
            THEN SnapshotDiscount(appliedCoupon, subtotal)
            ELSE 0
    IN  NewOrder(orderItems, subtotal, shippingCost, discount,
                 subtotal + shippingCost - discount, appliedCoupon)

\* The handler's own totals and the order document it constructs.
HandlerOrder(orderItems, appliedCoupon, cfg) ==
    LET subtotal == Hundred * SumItems(orderItems)
        shippingCost == ShippingCost(subtotal, cfg)
        discount ==
            IF appliedCoupon # NoCoupon
            THEN Min(SnapshotDiscount(appliedCoupon, subtotal), subtotal)
            ELSE 0
    IN  NewOrder(orderItems, subtotal, shippingCost, discount,
                 subtotal + shippingCost - discount, appliedCoupon)

\* After the last item: totals, new Order(...), order.save() begins.
ComputeTotals(r) ==
    /\ req[r].pc = "items"
    /\ Len(req[r].orderItems) >= 1
    /\ \E appliedCoupon \in AppliedCoupons :
        req' = [req EXCEPT
                  ![r].order = HandlerOrder(req[r].orderItems, appliedCoupon, config),
                  ![r].pc = "count"]
    /\ UNCHANGED <<products, orders, coupons, config, redeem, last>>

\* Pre-save hook: countDocuments answers, the hook assigns the number.
CountOrders(r) ==
    /\ req[r].pc = "count"
    /\ req' = [req EXCEPT
                 ![r].order = AssignOrderNumber(@, Today, Len(orders)),
                 ![r].pc = "insert"]
    /\ UNCHANGED <<products, orders, coupons, config, redeem, last>>

\* The unique index on orderNumber.
DuplicateKey(order) ==
    \E i \in 1..Len(orders) : orders[i].orderNumber = order.orderNumber

\* The insert: rejected with E11000 on a duplicate order number.
InsertOrder(r) ==
    /\ req[r].pc = "insert"
    /\ IF DuplicateKey(req[r].order)
       THEN /\ req' = [req EXCEPT ![r] = Responded("error")]
            /\ UNCHANGED orders
       ELSE /\ orders' = Append(orders, req[r].order)
            /\ req' = [req EXCEPT ![r].pc = "load", ![r].k = 1]
    /\ UNCHANGED <<products, coupons, config, redeem, last>>

\* Second loop: Product.findById(item.productId).
LoadProduct(r) ==
    /\ req[r].pc = "load"
    /\ req' = [req EXCEPT
                 ![r].product = products[req[r].orderItems[req[r].k].product],
                 ![r].pc = "save"]
    /\ UNCHANGED <<products, orders, coupons, config, redeem, last>>

\* product.save(): the paths the document changed since it was loaded are
\* $set on the stored document.
SaveModified(stored, loaded, doc) ==
    [stored EXCEPT
       !.sizes = [i \in 1..Len(stored.sizes) |->
                    IF doc.sizes[i].stock # loaded.sizes[i].stock
                    THEN [stored.sizes[i] EXCEPT !.stock = doc.sizes[i].stock]
                    ELSE stored.sizes[i]],
       !.inStock = IF doc.inStock # loaded.inStock
                   THEN doc.inStock ELSE stored.inStock]

\* Second loop: updateStock on the loaded document, product.save(); after
\* the last item the 201 response.
SaveProduct(r) ==
    /\ req[r].pc = "save"
    /\ LET item == req[r].orderItems[req[r].k]
           doc == UpdateStock(req[r].product, item.size, item.quantity).doc
       IN  /\ products' = [products EXCEPT ![item.product] =
                              SaveModified(@, req[r].product, doc)]
           /\ req' = IF req[r].k = Len(req[r].orderItems)
                     THEN [req EXCEPT ![r] = Responded("created")]
                     ELSE [req EXCEPT ![r].k = @ + 1, ![r].product = NoDoc,
                                      ![r].pc = "load"]
    /\ UNCHANGED <<orders, coupons, config, redeem, last>>

NoCall == [op |-> "none"]

Init ==
    /\ products = [p \in ProductIds |-> InitialProduct]
    /\ orders = <<>>
    /\ coupons = <<>>
    /\ config = InitialConfig
    /\ req = [r \in Requests |-> IdleFrame]
    /\ redeem = <<>>
    /\ last = NoCall

Handler(r) ==
    \/ CheckItem(r)
    \/ ComputeTotals(r)
    \/ CountOrders(r)
    \/ InsertOrder(r)
    \/ LoadProduct(r)
    \/ SaveProduct(r)

\* Concurrent requests.
Next == \E r \in Requests : Handler(r)

Spec == Init /\ [][Next]_vars

\* One request at a time.
OneRequestNext == Handler(1)

SpecOneRequest == Init /\ [][OneRequestNext]_vars

----------------------------------------------------------------------------
(* Order lifecycle: the status route and the request / process methods,   *)
(* each call loading the stored order, running the method and, when the   *)
(* method returns, saving the document.  `last` records the call.         *)

NotesInputs == {"", "note"}
CancelReasons == {"changed_mind", "other"}
ReturnReasons == {"defective"}
RefundMethods == {"original_payment"}
TrackingInputs == {"RT1"}
Admin == "admin"

\* An order as checkout leaves it: one line item, no coupon, saved.
CheckedOutOrder ==
    AssignOrderNumber(
        HandlerOrder(<< [product |-> "p1", size |-> "50g", price |-> 40,
                         quantity |-> 1] >>, NoCoupon, InitialConfig),
        Today, 0)

\* The stored order after a call: saved only when the method returned.
Stored(i, outcome) ==
    IF outcome.ok THEN [orders EXCEPT ![i] = outcome.doc] ELSE orders

Called(op, i, args, outcome) ==
    [op |-> op, order |-> i, args |-> args, ok |-> outcome.ok,
     error |-> outcome.error]

\* PUT /api/orders/:id/status
PutOrderStatus(i) ==
    \E status \in OrderStatuses, notes \in {""} :
        LET outcome == UpdateStatus(orders[i], status, notes)
        IN  /\ orders' = Stored(i, outcome)
            /\ last' = Called("updateStatus", i,
                              [status |-> status, notes |-> notes], outcome)
            /\ UNCHANGED <<products, coupons, config, req, redeem>>

CallRequestCancellation(i) ==
    \E reason \in CancelReasons :
        LET outcome == RequestCancellation(orders[i], reason, "")
        IN  /\ orders' = Stored(i, outcome)
            /\ last' = Called("requestCancellation", i,
                              [reason |-> reason], outcome)
            /\ UNCHANGED <<products, coupons, config, req, redeem>>

CallRequestReturn(i) ==
    \E reason \in ReturnReasons :
        LET outcome == RequestReturn(orders[i], reason, "")
        IN  /\ orders' = Stored(i, outcome)
            /\ last' = Called("requestReturn", i,
                              [reason |-> reason], outcome)
            /\ UNCHANGED <<products, coupons, config, req, redeem>>

CallProcessCancelRequest(i) ==
    \E approved \in BOOLEAN, notes \in NotesInputs :
        LET outcome == ProcessCancelRequest(orders[i], approved, Admin, notes)
        IN  /\ orders' = Stored(i, outcome)
            /\ last' = Called("processCancelRequest", i,
                              [approved |-> approved, notes |-> notes],
                              outcome)
            /\ UNCHANGED <<products, coupons, config, req, redeem>>

CallProcessReturnRequest(i) ==
    \E approved \in BOOLEAN, refundAmount \in {orders[i].total},
       refundMethod \in RefundMethods, tracking \in TrackingInputs,
       notes \in NotesInputs :
        LET outcome == ProcessReturnRequest(orders[i], approved, Admin,
                           refundAmount, refundMethod, tracking, notes)
        IN  /\ orders' = Stored(i, outcome)
            /\ last' = Called("processReturnRequest", i,
                              [approved |-> approved,
                               refundAmount |-> refundAmount,
                               refundMethod |-> refundMethod,
                               returnTrackingNumber |-> tracking,
                               notes |-> notes], outcome)
            /\ UNCHANGED <<products, coupons, config, req, redeem>>

LifecycleInit ==
    /\ products = [p \in ProductIds |-> InitialProduct]
    /\ orders = <<CheckedOutOrder>>
    /\ coupons = <<>>
    /\ config = InitialConfig
    /\ req = [r \in Requests |-> IdleFrame]
    /\ redeem = <<>>
    /\ last = NoCall

LifecycleNext ==
    \/ PutOrderStatus(1)
    \/ CallRequestCancellation(1)
    \/ CallRequestReturn(1)
    \/ CallProcessCancelRequest(1)
    \/ CallProcessReturnRequest(1)

SpecLifecycle == LifecycleInit /\ [][LifecycleNext]_vars

----------------------------------------------------------------------------
(* Order numbering: order.save() on one document, the pre-save hook       *)
(* seeing any date and any count of the day's orders.                     *)

OrderCounts == (0..12) \cup {98, 99, 998, 999, 9998, 9999}
Dates ==
    { [year |-> 2025, month |-> 4, day |-> 17],
      [year |-> 2025, month |-> 12, day |-> 5],
      [year |-> 2026, month |-> 1, day |-> 1] }

\* order.save(): the hook numbers the document unless it has a number.
SaveOrder(i) ==
    \E date \in Dates, orderCount \in OrderCounts :
        /\ orders' = [orders EXCEPT
                        ![i] = AssignOrderNumber(@, date, orderCount)]
        /\ last' = [op |-> "save", order |-> i,
                    args |-> [date |-> date, orderCount |-> orderCount],
                    before |-> orders[i].orderNumber]
        /\ UNCHANGED <<products, coupons, config, req, redeem>>

NumberInit ==
    /\ products = [p \in ProductIds |-> InitialProduct]
    /\ orders = << HandlerOrder(<< [product |-> "p1", size |-> "50g",
                                    price |-> 40, quantity |-> 1] >>,
                                NoCoupon, InitialConfig) >>
    /\ coupons = <<>>
    /\ config = InitialConfig
    /\ req = [r \in Requests |-> IdleFrame]
    /\ redeem = <<>>
    /\ last = NoCall

NumberNext == SaveOrder(1)

SpecNumber == NumberInit /\ [][NumberNext]_vars

----------------------------------------------------------------------------
(* Totals under a changing shipping configuration: checkout requests one  *)
(* after the other, calculateTotals on stored orders, and the admin       *)
(* shipping settings route.  last keeps the last two computations with    *)
(* the configuration each one read.                                       *)

MaxOrders == 2
ShippingFees == {0, 49}
Thresholds == {300, 500}

\* req.body.items of the checkout requests.
BodyItemLists ==
    { << [productId |-> "p1", size |-> "50g", quantity |-> 1] >>,
      << [productId |-> "p1", size |-> "200g", quantity |-> 1] >>,
      << [productId |-> "p1", size |-> "200g", quantity |-> 2] >> }

BodyCoupons ==
    { NoCoupon, [code |-> "SAVE10", type |-> "percentage", discount |-> 10] }

\* What one computation of totals read and produced.
Computation(op, order, cfg) ==
    [op |-> op, items |-> order.items, appliedCoupon |-> order.appliedCoupon,
     config |-> cfg, subtotal |-> order.subtotal,
     shippingCost |-> order.shippingCost, total |-> order.total]

NoComputation ==
    [op |-> "none", computed |-> NoDoc, previous |-> NoDoc,
     interleaved |-> FALSE, updated |-> FALSE]

Computed(op, order) ==
    [op |-> op, computed |-> Computation(op, order, config),
     previous |-> last.computed, interleaved |-> last.updated,
     updated |-> FALSE]

\* PUT /shipping-fee: each setting present in the body replaces the
\* process-wide value; last.updated notes that the configuration changed
\* since the latest computation.
PutShippingFee ==
    \E fee \in {NoNumber} \cup {<<f>> : f \in ShippingFees},
       threshold \in {NoNumber} \cup {<<t>> : t \in Thresholds} :
        /\ config' =
               [shippingFee |->
                    IF fee # NoNumber THEN fee[1] ELSE config.shippingFee,
                freeShippingThreshold |->
                    IF threshold # NoNumber THEN threshold[1]
                    ELSE config.freeShippingThreshold]
        /\ last' = [last EXCEPT !.op = "putShippingFee",
                                !.updated = @ \/ config' # config]
        /\ UNCHANGED <<products, orders, coupons, req, redeem>>

\* order.calculateTotals() on a stored order.
CallCalculateTotals ==
    \E i \in 1..Len(orders) :
        LET doc == CalculateTotals(orders[i], config)
        IN  /\ orders' = [orders EXCEPT ![i] = doc]
            /\ last' = Computed("calculateTotals", doc)
            /\ UNCHANGED <<products, coupons, config, req, redeem>>

\* The first loop of POST /api/orders over the whole body.
RECURSIVE OrderItems(_, _)
OrderItems(prods, items) ==
    IF items = <<>> THEN <<>>
    ELSE LET product == prods[items[1].productId]
             sizeObj == product.sizes[FindSize(product.sizes, items[1].size)]
         IN  << [product |-> items[1].productId, size |-> items[1].size,
                 price |-> sizeObj.price, quantity |-> items[1].quantity] >>
             \o OrderItems(prods, Tail(items))

\* The second loop of POST /api/orders over the whole order.
RECURSIVE DecrementAll(_, _)
DecrementAll(prods, items) ==
    IF items = <<>> THEN prods
    ELSE DecrementAll(
             [prods EXCEPT ![items[1].product] =
                 UpdateStock(@, items[1].size, items[1].quantity).doc],
             Tail(items))

\* POST /api/orders served from start to end with no other request in
\* between.
PostOrder ==
    /\ Len(orders) < MaxOrders
    /\ \E items \in BodyItemLists, appliedCoupon \in BodyCoupons :
        IF \E k \in 1..Len(items) :
               ~IsInStock(products[items[k].productId], items[k].size)
        THEN /\ last' = [last EXCEPT !.op = "postOrderRejected"]
             /\ UNCHANGED <<products, orders>>
        ELSE LET order == AssignOrderNumber(
                              HandlerOrder(OrderItems(products, items),
                                           appliedCoupon, config),
                              Today, Len(orders))
             IN  /\ orders' = Append(orders, order)
                 /\ products' = DecrementAll(products, order.items)
                 /\ last' = Computed("postOrder", order)
    /\ UNCHANGED <<coupons, config, req, redeem>>

ShippingInit ==
    /\ products = [p \in ProductIds |-> InitialProduct]
    /\ orders = <<>>
    /\ coupons = <<>>
    /\ config = InitialConfig
    /\ req = [r \in Requests |-> IdleFrame]
    /\ redeem = <<>>
    /\ last = NoComputation

ShippingNext ==
    \/ PutShippingFee
    \/ CallCalculateTotals
    \/ PostOrder

SpecShipping == ShippingInit /\ [][ShippingNext]_vars

----------------------------------------------------------------------------
(* Stock ledger: updateStock calls (each followed by product.save(), as   *)
(* checkout does) and the admin stock route, one after the other.         *)

\* product.updateStock(size, quantity); product.save()
CallUpdateStock(p) ==
    \E size \in SizeLabels, quantity \in -1..MaxQty :
        LET outcome == UpdateStock(products[p], size, quantity)
        IN  /\ \A i \in 1..Len(outcome.doc.sizes) :
                   outcome.doc.sizes[i].stock <= MaxStock
            /\ products' = [products EXCEPT ![p] = outcome.doc]
            /\ last' = [op |-> "updateStock", product |-> p,
                        args |-> [size |-> size, quantity |-> quantity],
                        returned |-> outcome.returned,
                        before |-> products[p]]
            /\ UNCHANGED <<orders, coupons, config, req, redeem>>

\* PUT /api/products/:id/stock (quantity validated as an integer >= 0)
PutProductStock(p) ==
    \E size \in SizeLabels, quantity \in 0..MaxStock :
        LET sizeIndex == FindSize(products[p].sizes, size)
            sizes == [products[p].sizes EXCEPT ![sizeIndex].stock = quantity]
        IN  /\ products' =
                   IF sizeIndex = 0 THEN products
                   ELSE [products EXCEPT ![p].sizes = sizes,
                                         ![p].inStock = AnyInStock(sizes)]
            /\ last' = [op |-> "putStock", product |-> p,
                        args |-> [size |-> size, quantity |-> quantity],
                        status |-> IF sizeIndex = 0 THEN 400 ELSE 200,
                        before |-> products[p]]
            /\ UNCHANGED <<orders, coupons, config, req, redeem>>

StockInit ==
    /\ products = [p \in ProductIds |-> InitialProduct]
    /\ orders = <<>>
    /\ coupons = <<>>
    /\ config = InitialConfig
    /\ req = [r \in Requests |-> IdleFrame]
    /\ redeem = <<>>
    /\ last = NoCall

StockNext ==
    \/ CallUpdateStock("p1")
    \/ PutProductStock("p1")

SpecStock == StockInit /\ [][StockNext]_vars

\* req.body.sizes of an admin edit: one or two sizes, each with a label, a
\* price and a stock count.
EditedSizes ==
    { << [size |-> "50g", price |-> 40, stock |-> a] >> : a \in 0..MaxStock }
    \cup
    { << [size |-> "50g", price |-> 40, stock |-> a],
         [size |-> "200g", price |-> 300, stock |-> b] >> :
      a \in 0..MaxStock, b \in 0..MaxStock }

\* PUT /products/edit/:id: the sizes are replaced and the product saved.
PutProductEdit(p) ==
    \E sizes \in EditedSizes :
        /\ products' = [products EXCEPT ![p].sizes = sizes]
        /\ last' = [op |-> "putEdit", product |-> p,
                    args |-> [sizes |-> sizes], status |-> 200,
                    before |-> products[p]]
        /\ UNCHANGED <<orders, coupons, config, req, redeem>>

\* Every way a product's sizes change after creation.
ProductNext ==
    \/ CallUpdateStock("p1")
    \/ PutProductStock("p1")
    \/ PutProductEdit("p1")

SpecProduct == StockInit /\ [][ProductNext]_vars

----------------------------------------------------------------------------
(* Coupon usage: callers that load a coupon and call incrementUsage().    *)

CouponCodes == {"SAVE10"}
UsageLimits == {-1, 1, 2}

\* A coupon document, the fields left out of the input at their defaults.
NewCoupon(code, usageLimit) ==
    [code |-> code, discount |-> 10, type |-> "percentage",
     categories |-> {}, minOrderAmount |-> 0, maxDiscount |-> NoMaxDiscount,
     usageLimit |-> usageLimit, usedCount |-> 0,
     validFrom |-> 1, validUntil |-> 2, isActive |-> TRUE,
     isFirstTimeOnly |-> FALSE, applicableUsers |-> {}, excludedUsers |-> {}]

IdleCaller == [pc |-> "idle", coupon |-> NoDoc]

\* Coupon.findOne({ code }): the caller's copy of the stored document.
LoadCoupon(r) ==
    /\ redeem[r].pc = "idle"
    /\ \E c \in CouponCodes :
        redeem' = [redeem EXCEPT ![r] = [pc |-> "loaded",
                                         coupon |-> coupons[c]]]
    /\ UNCHANGED <<products, orders, coupons, config, req, last>>

\* coupon.incrementUsage(): usedCount += 1 on the copy, then save(), which
\* sets the stored usedCount to the copy's value.
CallIncrementUsage(r) ==
    /\ redeem[r].pc = "loaded"
    /\ redeem[r].coupon.usedCount < MaxUsed
    /\ LET doc == IncrementUsage(redeem[r].coupon)
       IN  coupons' = [coupons EXCEPT ![doc.code].usedCount = doc.usedCount]
    /\ redeem' = [redeem EXCEPT ![r] = IdleCaller]
    /\ UNCHANGED <<products, orders, config, req, last>>

CouponInit ==
    /\ products = [p \in ProductIds |-> InitialProduct]
    /\ orders = <<>>
    /\ \E limit \in UsageLimits :
          coupons = [c \in CouponCodes |-> NewCoupon(c, limit)]
    /\ config = InitialConfig
    /\ req = [r \in Requests |-> IdleFrame]
    /\ redeem = [r \in Requests |-> IdleCaller]
    /\ last = NoCall

CouponNext ==
    \E r \in Requests :
        \/ LoadCoupon(r)
        \/ CallIncrementUsage(r)

SpecCoupon == CouponInit /\ [][CouponNext]_vars

----------------------------------------------------------------------------
(* Coupon evaluator: isValid, canBeApplied and calculateDiscount called   *)
(* on a stored coupon, as POST /api/coupons/validate does.                *)

Times == 0..3
UserIds == {"u1", "u2"}
Categories == {"Chips", "Nuts"}

\* Coupons that differ in what isValid and canBeApplied read.
GatingCoupons ==
    { [NewCoupon("SAVE10", limit) EXCEPT
          !.usedCount = used, !.isActive = active,
          !.isFirstTimeOnly = firstOnly, !.minOrderAmount = minimum,
          !.applicableUsers = applicable, !.excludedUsers = excluded] :
      limit \in {-1, 1}, used \in {0, 1}, active \in BOOLEAN,
      firstOnly \in BOOLEAN, minimum \in {0, 500 * Hundred},
      applicable \in {{}, {"u1"}}, excluded \in {{}, {"u2"}} }

\* Coupons that differ in what calculateDiscount reads; maxDiscount takes
\* no cap, half a rupee below zero, zero and fifty rupees.
PricingCoupons ==
    { [NewCoupon("SAVE10", -1) EXCEPT
          !.discount = discount, !.type = type,
          !.categories = categories, !.maxDiscount = maxDiscount] :
      discount \in {0, 10, 150}, type \in {"percentage", "fixed"},
      categories \in {{}, {"Chips"}},
      maxDiscount \in {NoMaxDiscount, -50, 0, 50 * Hundred} }

OrderAmounts == {0, 300 * Hundred, 1000 * Hundred}

ItemLists ==
    { <<>>,
      << [category |-> "Chips", price |-> 40, quantity |-> 1] >>,
      << [category |-> "Nuts", price |-> 300, quantity |-> 1] >>,
      << [category |-> "Chips", price |-> 40, quantity |-> 2],
         [category |-> "Nuts", price |-> 300, quantity |-> 1] >> }

CallIsValid(c) ==
    /\ \E now \in Times :
        last' = [op |-> "isValid", coupon |-> c, args |-> [now |-> now],
                 returned |-> IsValid(coupons[c], now)]
    /\ UNCHANGED <<products, orders, coupons, config, req, redeem>>

CallCanBeApplied(c) ==
    /\ \E orderAmount \in OrderAmounts, userId \in UserIds \cup {NoUser},
          isFirstTime \in BOOLEAN, now \in Times :
        last' = [op |-> "canBeApplied", coupon |-> c,
                 args |-> [orderAmount |-> orderAmount, userId |-> userId,
                           isFirstTime |-> isFirstTime, now |-> now],
                 returned |-> CanBeApplied(coupons[c], orderAmount, userId,
                                           isFirstTime, now)]
    /\ UNCHANGED <<products, orders, coupons, config, req, redeem>>

CallCalculateDiscount(c) ==
    /\ \E orderAmount \in OrderAmounts, items \in ItemLists :
        last' = [op |-> "calculateDiscount", coupon |-> c,
                 args |-> [orderAmount |-> orderAmount, items |-> items],
                 returned |-> CalculateDiscount(coupons[c], orderAmount,
                                                items)]
    /\ UNCHANGED <<products, orders, coupons, config, req, redeem>>

EvaluatorInit ==
    /\ products = [p \in ProductIds |-> InitialProduct]
    /\ orders = <<>>
    /\ \E coupon \in GatingCoupons \cup PricingCoupons :
          coupons = [c \in CouponCodes |-> coupon]
    /\ config = InitialConfig
    /\ req = [r \in Requests |-> IdleFrame]
    /\ redeem = <<>>
    /\ last = NoCall

EvaluatorNext ==
    \/ CallIsValid("SAVE10")
    \/ CallCanBeApplied("SAVE10")
    \/ CallCalculateDiscount("SAVE10")

SpecEvaluator == EvaluatorInit /\ [][EvaluatorNext]_vars

----------------------------------------------------------------------------
(* Checkout against a coupon collection: one request, a catalogue whose   *)
(* prices reach a subtotal of 1000, and the coupon SAVE10 stored (10 %,   *)
(* at most 50 off), active or deactivated.                                *)

PricedProduct ==
    [sizes |-> << [size |-> "50g", price |-> 40, stock |-> 1],
                  [size |-> "200g", price |-> 500, stock |-> MaxStock] >>,
     inStock |-> TRUE]

PricedInit ==
    /\ products = [p \in ProductIds |-> PricedProduct]
    /\ orders = <<>>
    /\ \E active \in BOOLEAN :
          coupons = [c \in CouponCodes |->
                        [NewCoupon(c, -1) EXCEPT
                            !.maxDiscount = 50 * Hundred,
                            !.isActive = active]]
    /\ config = InitialConfig
    /\ req = [r \in Requests |-> IdleFrame]
    /\ redeem = <<>>
    /\ last = NoCall

PricedNext == Handler(1)

SpecPriced == PricedInit /\ [][PricedNext]_vars

----------------------------------------------------------------------------
(* Claims about the order lifecycle, checked under SpecLifecycle.  In a   *)
(* step, last' is the call made, orders the stored orders before it and   *)
(* orders' the stored orders after it.                                    *)

\* C5: requestCancellation throws and leaves the order unchanged when the
\* order is shipped, delivered, cancelled or returned; it returns when the
\* order is pending, confirmed or processing, and the order then carries a
\* cancellation sub-record whose status is pending.
C5_RequestCancellation ==
    [][ last'.op = "requestCancellation" =>
          LET before == orders[last'.order]
              after == orders'[last'.order]
          IN  /\ before.orderStatus \in
                     {"shipped", "delivered", "cancelled", "returned"}
                   => ~last'.ok /\ after = before
              /\ before.orderStatus \in {"pending", "confirmed", "processing"}
                   => /\ last'.ok
                      /\ after.cancelRequest.status = "pending"
                      /\ after.cancelRequest.requestedAt = Now
                      /\ after.cancelRequest.reason = last'.args.reason
       ]_vars

C5_Witness ==
    /\ last.op = "requestCancellation"
    /\ last.ok
    /\ orders[1].orderStatus = "processing"
    /\ orders[1].cancelRequest.status = "pending"
    /\ orders[1].cancelRequest.requestedAt = Now

\* C6: requestReturn throws (order unchanged) unless the order is
\* delivered; on a delivered order it records a return sub-record with
\* status pending and leaves the order status as it was.
C6_RequestReturn ==
    [][ last'.op = "requestReturn" =>
          LET before == orders[last'.order]
              after == orders'[last'.order]
          IN  /\ before.orderStatus # "delivered"
                   => ~last'.ok /\ after = before
              /\ before.orderStatus = "delivered"
                   => /\ last'.ok
                      /\ after.returnRequest.status = "pending"
                      /\ after.returnRequest.requestedAt = Now
                      /\ after.orderStatus = "delivered"
       ]_vars

C6_Witness ==
    /\ last.op = "requestReturn"
    /\ last.ok
    /\ orders[1].orderStatus = "delivered"
    /\ orders[1].returnRequest.status = "pending"
    /\ orders[1].returnRequest.requestedAt = Now

\* A request was filed: requestCancellation / requestReturn stamp
\* requestedAt, which the schema leaves undefined on a new order.
Filed(subRecord) == subRecord.requestedAt # Unset

\* paymentStatus becomes refunded only when processCancelRequest approves.
CancelApprovedBefore(order) == order.paymentStatus = "refunded"

\* C7: processCancelRequest(approved = true) on an order with a pending
\* cancellation sub-record sets the sub-record to approved, the order to
\* cancelled and the payment to refunded; every later processCancelRequest
\* call on that order throws 'No pending cancellation request found' and
\* changes nothing.
C7_ProcessCancelOnce ==
    [][ last'.op = "processCancelRequest" =>
          LET before == orders[last'.order]
              after == orders'[last'.order]
          IN  /\ before.cancelRequest.status = "pending" /\ last'.args.approved
                   => /\ last'.ok
                      /\ after.cancelRequest.status = "approved"
                      /\ after.orderStatus = "cancelled"
                      /\ after.paymentStatus = "refunded"
              /\ CancelApprovedBefore(before)
                   => /\ ~last'.ok
                      /\ last'.error = "No pending cancellation request found"
                      /\ after = before
       ]_vars

\* C7, reached: an approval has just cancelled and refunded the order.
C7_Witness ==
    /\ last.op = "processCancelRequest"
    /\ last.ok
    /\ last.args.approved
    /\ orders[1].cancelRequest.status = "approved"
    /\ orders[1].orderStatus = "cancelled"
    /\ orders[1].paymentStatus = "refunded"

\* C8: processReturnRequest returns only when the order has a return
\* sub-record (a return was requested) whose status is pending; approving
\* sets the order to returned and stores refundAmount, refundMethod and
\* the return tracking number; rejecting leaves the order status and those
\* fields as they were.
C8_ProcessReturn ==
    [][ last'.op = "processReturnRequest" =>
          LET before == orders[last'.order]
              after == orders'[last'.order]
          IN  /\ last'.ok => /\ Filed(before.returnRequest)
                             /\ before.returnRequest.status = "pending"
              /\ last'.ok /\ last'.args.approved
                   => /\ after.orderStatus = "returned"
                      /\ after.returnRequest.status = "approved"
                      /\ after.returnRequest.refundAmount =
                             <<last'.args.refundAmount>>
                      /\ after.returnRequest.refundMethod =
                             last'.args.refundMethod
                      /\ after.returnRequest.returnTrackingNumber =
                             last'.args.returnTrackingNumber
              /\ last'.ok /\ ~last'.args.approved
                   => /\ after.orderStatus = before.orderStatus
                      /\ after.returnRequest.status = "rejected"
                      /\ after.returnRequest.refundAmount =
                             before.returnRequest.refundAmount
                      /\ after.returnRequest.refundMethod =
                             before.returnRequest.refundMethod
                      /\ after.returnRequest.returnTrackingNumber =
                             before.returnRequest.returnTrackingNumber
       ]_vars

\* C9: over the request / process calls, a request of each kind is filed
\* at most once, and a sub-record that is approved or rejected is never
\* overwritten or put back to pending.
C9_SingleShot ==
    [][ last'.op \in {"requestCancellation", "requestReturn",
                      "processCancelRequest", "processReturnRequest"} =>
          LET before == orders[last'.order]
              after == orders'[last'.order]
          IN  /\ last'.op = "requestCancellation" /\ last'.ok
                   => ~Filed(before.cancelRequest)
              /\ last'.op = "requestReturn" /\ last'.ok
                   => ~Filed(before.returnRequest)
              /\ before.cancelRequest.status \in {"approved", "rejected"}
                   => after.cancelRequest = before.cancelRequest
              /\ before.returnRequest.status \in {"approved", "rejected"}
                   => after.returnRequest = before.returnRequest
       ]_vars

----------------------------------------------------------------------------
(* Claims about checkout, stock and coupon usage.                         *)

TotalsHold(order) ==
    /\ order.total = order.subtotal + order.shippingCost - order.discount
    /\ 0 <= order.discount
    /\ order.discount <= order.subtotal

\* The orders a request has constructed and the orders persisted.
ProducedOrders ==
    {req[r].order : r \in {q \in Requests : req[q].order # NoDoc}}
        \cup {orders[i] : i \in 1..Len(orders)}

\* C1: every order the checkout handler produces, and every order as
\* calculateTotals recomputes it, has total = subtotal + shippingCost -
\* discount and 0 <= discount <= subtotal.
C1_Totals ==
    \A order \in ProducedOrders :
        /\ TotalsHold(order)
        /\ TotalsHold(CalculateTotals(order, config))

\* C1's case: a persisted order whose coupon's raw amount exceeded the
\* subtotal and was capped to it.
C1_Witness ==
    \E i \in 1..Len(orders) :
        /\ orders[i].appliedCoupon # NoCoupon
        /\ SnapshotDiscount(orders[i].appliedCoupon, orders[i].subtotal)
               > orders[i].subtotal
        /\ orders[i].discount = orders[i].subtotal
        /\ CalculateTotals(orders[i], config).discount = orders[i].subtotal

LastUnitItems ==
    << [product |-> "p1", size |-> "50g", price |-> 40, quantity |-> 1] >>

\* C2: of the requests that each ask for quantity 1 of the size whose stock
\* is 1, at most one gets its order created.
C2_LastUnitOnce ==
    Cardinality({i \in 1..Len(orders) : orders[i].items = LastUnitItems}) <= 1

Numbered(r) == req[r].pc \in {"insert", "load", "save"}

\* C3: the order numbers the pre-save hook generates for concurrent
\* same-day creations are pairwise distinct.
C3_DistinctNumbers ==
    \A r1, r2 \in Requests :
        (r1 # r2 /\ Numbered(r1) /\ Numbered(r2))
            => req[r1].order.orderNumber # req[r2].order.orderNumber

\* C4: every coupon with a usage limit has usedCount <= usageLimit.
C4_WithinLimit ==
    \A c \in DOMAIN coupons :
        coupons[c].usageLimit # -1
            => coupons[c].usedCount <= coupons[c].usageLimit

HasSize(product, size) ==
    \E i \in 1..Len(product.sizes) : product.sizes[i].size = size

StockNonNegative ==
    \A p \in DOMAIN products :
        \A i \in 1..Len(products[p].sizes) : products[p].sizes[i].stock >= 0

\* updateStock asked for more than the size had: the size is left at 0.
DecrementFloors ==
    (last'.op = "updateStock" /\ last' # last) =>
        LET before == last'.before.sizes
            after == products'[last'.product].sizes
        IN  \A i \in 1..Len(before) :
                (/\ before[i].size = last'.args.size
                 /\ \A j \in 1..(i - 1) : before[j].size # last'.args.size
                 /\ last'.args.quantity > before[i].stock)
                    => after[i].stock = 0

\* updateStock for a label the product lacks: false, nothing changed.
UnknownSizeNoOp ==
    (/\ last'.op = "updateStock"
     /\ last' # last
     /\ ~HasSize(last'.before, last'.args.size))
        => (~last'.returned /\ products' = products)

\* C10: after any sequence of updateStock calls and admin stock updates
\* every size's stock is >= 0; a decrement by more than the current stock
\* leaves exactly 0; a decrement for an unknown size label returns false
\* and changes nothing.
C10_StockFloor ==
    /\ []StockNonNegative
    /\ [][DecrementFloors /\ UnknownSizeNoOp]_vars

\* C10's case: updateStock took more than the size had and left it at 0.
C10_Witness ==
    /\ last.op = "updateStock"
    /\ last.returned
    /\ \E i \in 1..Len(last.before.sizes) :
          /\ last.before.sizes[i].size = last.args.size
          /\ last.before.sizes[i].stock >= 1
          /\ last.args.quantity > last.before.sizes[i].stock
          /\ products[last.product].sizes[i].stock = 0

----------------------------------------------------------------------------
(* Claims about the coupon evaluator, checked under SpecEvaluator: last   *)
(* is the call made on the stored coupon.                                 *)

Evaluated == coupons[last.coupon]

\* The base the discount is taken from: the matching items' amount for a
\* category coupon given items, the order amount otherwise.
DiscountableBase(coupon, orderAmount, items) ==
    IF coupon.categories # {} /\ items # <<>>
    THEN Hundred * SumMatching(items, coupon.categories)
    ELSE orderAmount

\* C11: calculateDiscount returns a value that is >= 0, at most the
\* discountable base, and at most maxDiscount when maxDiscount is not -1.
C11_DiscountBounds ==
    last.op = "calculateDiscount" =>
        /\ last.returned >= 0
        /\ last.returned <= DiscountableBase(Evaluated, last.args.orderAmount,
                                             last.args.items)
        /\ Evaluated.maxDiscount # NoMaxDiscount
              => last.returned <= Evaluated.maxDiscount

\* C12: canBeApplied returns true exactly when the coupon is redeemable,
\* the order amount reaches minOrderAmount, a first-time-only coupon meets
\* a first-time customer, the user is not excluded, and the applicable
\* list is empty or holds the user (an absent user is in no list).
C12_CanBeApplied ==
    last.op = "canBeApplied" =>
        (last.returned <=>
            /\ IsValid(Evaluated, last.args.now)
            /\ last.args.orderAmount >= Evaluated.minOrderAmount
            /\ (~Evaluated.isFirstTimeOnly \/ last.args.isFirstTime)
            /\ last.args.userId \notin Evaluated.excludedUsers
            /\ \/ Evaluated.applicableUsers = {}
               \/ last.args.userId \in Evaluated.applicableUsers)

\* C13: isValid at time now returns true if and only if the coupon is
\* active, validFrom <= now <= validUntil, and usageLimit is -1 or
\* usedCount < usageLimit.
C13_IsValid ==
    last.op = "isValid" =>
        (last.returned <=>
            /\ Evaluated.isActive
            /\ Evaluated.validFrom <= last.args.now
            /\ last.args.now <= Evaluated.validUntil
            /\ (Evaluated.usageLimit = -1
                \/ Evaluated.usedCount < Evaluated.usageLimit))

\* C13's case: isValid answered true on the last instant of the window of
\* a coupon with a usage limit it has not reached.
C13_Witness ==
    /\ last.op = "isValid"
    /\ last.returned
    /\ last.args.now = Evaluated.validUntil
    /\ Evaluated.usageLimit # -1

\* The reference computation of the discount.
ReferenceDiscount(coupon, orderAmount, items) ==
    LET base == DiscountableBase(coupon, orderAmount, items)
        raw == IF coupon.type = "percentage"
               THEN (base * coupon.discount) \div Hundred
               ELSE Hundred * coupon.discount
        capped == IF coupon.maxDiscount # NoMaxDiscount /\ coupon.maxDiscount < raw
                  THEN coupon.maxDiscount ELSE raw
    IN  IF capped < base THEN capped ELSE base

NoneMatch(coupon, items) ==
    /\ coupon.categories # {}
    /\ items # <<>>
    /\ \A i \in 1..Len(items) : items[i].category \notin coupon.categories

\* C14: calculateDiscount equals the reference computation (base from the
\* matching items or the order amount, percentage or fixed raw amount, cap
\* at maxDiscount, min with the base), and a category coupon applied to
\* items none of which match yields 0.
C14_Reference ==
    last.op = "calculateDiscount" =>
        /\ last.returned = ReferenceDiscount(Evaluated, last.args.orderAmount,
                                             last.args.items)
        /\ NoneMatch(Evaluated, last.args.items) => last.returned = 0

----------------------------------------------------------------------------
(* Claims about the product catalogue, checked under SpecProduct.         *)

\* C19: in every reachable product state the inStock flag is true if and
\* only if at least one size has stock > 0.
C19_InStockFlag ==
    \A p \in DOMAIN products :
        products[p].inStock <=>
            (\E i \in 1..Len(products[p].sizes) :
                 products[p].sizes[i].stock > 0)

----------------------------------------------------------------------------
(* Rejected lifecycle operations, checked under SpecLifecycle.            *)

\* The order document as the rejected call of last' left it in memory.
LeftByCall(before, call) ==
    CASE call.op = "requestCancellation" ->
             RequestCancellation(before, call.args.reason, "").doc
      [] call.op = "requestReturn" ->
             RequestReturn(before, call.args.reason, "").doc
      [] call.op = "processCancelRequest" ->
             ProcessCancelRequest(before, call.args.approved, Admin,
                                  call.args.notes).doc
      [] call.op = "processReturnRequest" ->
             ProcessReturnRequest(before, call.args.approved, Admin,
                                  call.args.refundAmount,
                                  call.args.refundMethod,
                                  call.args.returnTrackingNumber,
                                  call.args.notes).doc

\* C20: a rejected requestCancellation, requestReturn, processCancelRequest
\* or processReturnRequest leaves the order exactly as before the call:
\* the stored order and the document the method worked on, in every field.
C20_RejectedUnchanged ==
    [][ (/\ last'.op \in {"requestCancellation", "requestReturn",
                          "processCancelRequest", "processReturnRequest"}
         /\ ~last'.ok)
          => /\ orders' = orders
             /\ LeftByCall(orders[last'.order], last') = orders[last'.order]
      ]_vars

\* C20's case: processCancelRequest was rejected on an order whose
\* cancellation had already been approved, and the order is as it was.
C20_Witness ==
    /\ last.op = "processCancelRequest"
    /\ ~last.ok
    /\ orders[1].cancelRequest.status = "approved"
    /\ orders[1].cancelRequest.processedAt = Now
    /\ orders[1].orderStatus = "cancelled"
    /\ orders[1].paymentStatus = "refunded"

----------------------------------------------------------------------------
(* Order number format, checked under SpecNumber.                         *)

DigitValue(ch) == CHOOSE d \in 0..9 : DigitChars[d + 1] = ch

IsDigits(chars) ==
    \A i \in 1..Len(chars) : \E d \in 0..9 : DigitChars[d + 1] = chars[i]

\* The number a sequence of decimal digits denotes.
RECURSIVE ToNumber(_)
ToNumber(chars) ==
    IF chars = <<>> THEN 0
    ELSE 10 * ToNumber(SubSeq(chars, 1, Len(chars) - 1))
         + DigitValue(chars[Len(chars)])

\* 'VB', 4 digits of year, 2 of month, 2 of day, 4 of the sequence value.
WellFormed(number, date, sequence) ==
    /\ Len(number) = 14
    /\ number[1] = "V" /\ number[2] = "B"
    /\ IsDigits(SubSeq(number, 3, 14))
    /\ ToNumber(SubSeq(number, 3, 6)) = date.year
    /\ ToNumber(SubSeq(number, 7, 8)) = date.month
    /\ ToNumber(SubSeq(number, 9, 10)) = date.day
    /\ ToNumber(SubSeq(number, 11, 14)) = sequence

\* C18: the number assigned to a new order is 'VB' + 4-digit year +
\* 2-digit month + 2-digit day + (orders counted today + 1) zero-padded to
\* exactly 4 digits, for every count; an order that has a number keeps it
\* on every later save.
C18_NumberFormat ==
    last.op = "save" =>
        IF last.before = NoOrderNumber
        THEN WellFormed(orders[last.order].orderNumber, last.args.date,
                        last.args.orderCount + 1)
        ELSE orders[last.order].orderNumber = last.before

\* C18's case: a first save numbered the order with a padded sequence.
C18_Witness ==
    /\ last.op = "save"
    /\ last.before = NoOrderNumber
    /\ last.args.orderCount = 6
    /\ WellFormed(orders[last.order].orderNumber, last.args.date, 7)

----------------------------------------------------------------------------
(* Claims about totals and the shipping configuration, checked under      *)
(* SpecShipping: last.computed is the latest computation of totals and    *)
(* last.previous the one before it.                                       *)

SameInputs(c1, c2) ==
    /\ c1.op = c2.op
    /\ c1.items = c2.items
    /\ c1.config = c2.config
    /\ c1.appliedCoupon = c2.appliedCoupon

----------------------------------------------------------------------------
(* Checkout and the coupon evaluator, checked under SpecPriced.           *)

\* The stored coupon the snapshot names, when some customer could apply it
\* to this amount at some time.
Applicable(snapshot, amount) ==
    /\ snapshot.code \in DOMAIN coupons
    /\ \E now \in Times, userId \in UserIds \cup {NoUser},
          isFirstTime \in BOOLEAN :
           CanBeApplied(coupons[snapshot.code], amount, userId,
                        isFirstTime, now)

\* C15: an order created with a coupon carries the discount the coupon
\* evaluator prices for that coupon (for SAVE10, 10 % capped at 50, on a
\* subtotal of 1000: discount 50 and total 1000 + shipping - 50), never
\* more than the coupon's maxDiscount, and a discount of 0 when the code
\* is unknown or the coupon cannot be applied.
C15_EvaluatorPriced ==
    \A i \in 1..Len(orders) :
        LET order == orders[i]
            snapshot == order.appliedCoupon
        IN  snapshot # NoCoupon =>
                IF Applicable(snapshot, order.subtotal)
                THEN /\ order.discount =
                            CalculateDiscount(coupons[snapshot.code],
                                              order.subtotal, <<>>)
                     /\ order.discount <= coupons[snapshot.code].maxDiscount
                     /\ order.total = order.subtotal + order.shippingCost
                                          - order.discount
                ELSE order.discount = 0

\* C15's scenario, reached: SAVE10 is stored active with maxDiscount 50,
\* the order's subtotal is 1000 and its snapshot is SAVE10 at 10 %; the
\* order carries a discount of 100.
C15_Witness ==
    \E i \in 1..Len(orders) :
        /\ coupons["SAVE10"].isActive
        /\ coupons["SAVE10"].maxDiscount = 50 * Hundred
        /\ orders[i].subtotal = 1000 * Hundred
        /\ orders[i].appliedCoupon =
               [code |-> "SAVE10", type |-> "percentage", discount |-> 10]
        /\ orders[i].discount = 100 * Hundred
        /\ orders[i].total = 1000 * Hundred - 100 * Hundred

----------------------------------------------------------------------------
(* POST /api/orders served from start to end, one request after the      *)
(* other: product lookup with the name fallback, the stock check, the    *)
(* totals, order.save(), the stock loop and the confirmation e-mail.     *)

CheckoutMethods == {"cod", "card"}     \* two of the five accepted methods
EmailOutcomes == {"sent", "rejected"}
NoProduct == "null"

\* utils/email.js sendEmail: logs and rethrows what the transport threw.
SendEmail(outcome) == IF outcome = "rejected" THEN "throws" ELSE "resolves"

\* Mutant: the notification is awaited outside any try / catch.
TrySendEmail_Uncaught(outcome) == SendEmail(outcome)

\* try { await sendEmail(...) } catch (error) { logger.error(...) }
TrySendEmail(outcome) ==
    IF SendEmail(outcome) = "throws" THEN "logged" ELSE "resolves"

\* A catalogue product with its name; "makhana01" is a pseudo id of it.
NamedProduct ==
    [name |-> "makhana", sizes |-> InitialProduct.sizes,
     inStock |-> InitialProduct.inStock]

\* Strings of 24 hexadecimal digits: "p1" is stored, "p2" is not.
ObjectIds == {"p1", "p2"}
IsObjectId(id) == id \in ObjectIds

\* item.productId.replace(/[0-9]+$/, '')
StripTrailingDigits(id) ==
    CASE id = "makhana01" -> "makhana"
      [] OTHER -> id

FindById(prods, id) == IF id \in DOMAIN prods THEN id ELSE NoProduct

\* Product.findOne({ name: new RegExp(pseudo, 'i') }); the names and the
\* prefixes of the model match exactly or not at all.
FindOneByName(prods, pseudo) ==
    LET matches == {p \in DOMAIN prods : prods[p].name = pseudo}
    IN  IF matches = {} THEN NoProduct ELSE CHOOSE p \in matches : TRUE

\* The lookup of the first loop: by id when the id is well formed, else
\* (or when nothing is found) by name prefix.
ResolveProduct(prods, productId) ==
    LET byId == IF IsObjectId(productId) THEN FindById(prods, productId)
                ELSE NoProduct
    IN  IF byId # NoProduct THEN byId
        ELSE FindOneByName(prods, StripTrailingDigits(productId))

\* The first loop over req.body.items: the first item that fails ends the
\* request with 400.
RECURSIVE ValidateItems(_, _)
ValidateItems(prods, items) ==
    IF items = <<>> THEN [error |-> "", orderItems |-> <<>>]
    ELSE LET p == ResolveProduct(prods, items[1].productId)
         IN  IF p = NoProduct
             THEN [error |-> "not found", orderItems |-> <<>>]
             ELSE IF ~IsInStock(prods[p], items[1].size)
             THEN [error |-> "out of stock", orderItems |-> <<>>]
             ELSE LET sizeObj == prods[p].sizes[FindSize(prods[p].sizes,
                                                         items[1].size)]
                      rest == ValidateItems(prods, Tail(items))
                  IN  IF rest.error # "" THEN rest
                      ELSE [error |-> "",
                            orderItems |->
                              << [product |-> p, size |-> items[1].size,
                                  price |-> sizeObj.price,
                                  quantity |-> items[1].quantity] >>
                              \o rest.orderItems]

\* The second loop over req.body.items: Product.findById(item.productId)
\* throws a CastError on an id that is not well formed and yields null
\* (then a TypeError) on an id that is not stored; the loop stops there.
RECURSIVE UpdateStocks(_, _)
UpdateStocks(prods, items) ==
    IF items = <<>> THEN [ok |-> TRUE, products |-> prods]
    ELSE IF \/ ~IsObjectId(items[1].productId)
            \/ FindById(prods, items[1].productId) = NoProduct
         THEN [ok |-> FALSE, products |-> prods]
         ELSE UpdateStocks(
                  [prods EXCEPT ![items[1].productId] =
                      UpdateStock(@, items[1].size, items[1].quantity).doc],
                  Tail(items))

\* Mutant: online payment methods start as paid.
PaymentStatusFor_PaidOnline(paymentMethod) ==
    IF paymentMethod = "cod" THEN "pending" ELSE "paid"

\* paymentStatus: paymentMethod === 'cod' ? 'pending' : 'pending'
PaymentStatusFor(paymentMethod) ==
    IF paymentMethod = "cod" THEN "pending" ELSE "pending"

\* new Order({...}) of the handler.
CheckoutOrder(orderItems, body, cfg) ==
    [HandlerOrder(orderItems, body.appliedCoupon, cfg) EXCEPT
        !.paymentStatus = PaymentStatusFor(body.paymentMethod)]

\* The whole handler.  last keeps the body, the catalogue as the request
\* found it, the place of the persisted order (0: none), the e-mails
\* attempted and the response status.
PostApiOrders(bodies) ==
    /\ Len(orders) < MaxOrders
    /\ \E body \in bodies, email \in EmailOutcomes :
        LET checked == ValidateItems(products, body.items)
            order == AssignOrderNumber(
                         CheckoutOrder(checked.orderItems, body, config),
                         Today, Len(orders))
            stocked == UpdateStocks(products, body.items)
            mail == TrySendEmail(email)
        IN  IF checked.error # ""
            THEN /\ UNCHANGED <<products, orders>>
                 /\ last' = [op |-> "postOrder", body |-> body, order |-> 0,
                             before |-> products, emails |-> <<>>,
                             response |-> "400"]
            ELSE /\ orders' = Append(orders, order)
                 /\ products' = stocked.products
                 /\ last' = [op |-> "postOrder", body |-> body,
                             order |-> Len(orders) + 1,
                             before |-> products,
                             emails |-> IF stocked.ok THEN <<email>>
                                        ELSE <<>>,
                             response |->
                                 IF ~stocked.ok \/ mail = "throws"
                                 THEN "500" ELSE "201"]
    /\ UNCHANGED <<coupons, config, req, redeem>>

\* req.body of the checkout requests.
CheckoutItemLists ==
    { << [productId |-> "p1", size |-> "50g", quantity |-> 1] >>,
      << [productId |-> "p1", size |-> "50g", quantity |-> 2] >>,
      << [productId |-> "p1", size |-> "200g", quantity |-> 1],
         [productId |-> "makhana01", size |-> "50g", quantity |-> 1] >>,
      << [productId |-> "p2", size |-> "50g", quantity |-> 1] >>,
      << [productId |-> "p1", size |-> "500g", quantity |-> 1] >> }

CheckoutCoupons ==
    { NoCoupon,
      [code |-> "SAVE10", type |-> "percentage", discount |-> 10],
      [code |-> Unset, type |-> "fixed", discount |-> 10] }

CheckoutBodies ==
    [items : CheckoutItemLists, paymentMethod : CheckoutMethods,
     appliedCoupon : CheckoutCoupons]

\* POST /api/coupons/validate by a guest or a signed-in customer.
PostCouponsValidate ==
    /\ \E code \in CouponCodes \cup {"NOPE"},
          orderAmount \in {0, 300 * Hundred},
          userId \in {NoUser, "u1"} :
        LET found == code \in DOMAIN coupons
            coupon == coupons[code]
            applies == CanBeApplied(coupon, orderAmount, userId, TRUE, 1)
        IN  last' = [op |-> "validate", code |-> code,
                     response |-> IF found /\ applies THEN "200" ELSE "400",
                     discountAmount |->
                         IF found /\ applies
                         THEN <<CalculateDiscount(coupon, orderAmount, <<>>)>>
                         ELSE NoNumber]
    /\ UNCHANGED <<products, orders, coupons, config, req, redeem>>

CheckoutInit ==
    /\ products = [p \in ProductIds |-> NamedProduct]
    /\ orders = <<>>
    /\ coupons = [c \in CouponCodes |-> NewCoupon(c, -1)]
    /\ config = InitialConfig
    /\ req = [r \in Requests |-> IdleFrame]
    /\ redeem = <<>>
    /\ last = NoCall

CheckoutNext ==
    \/ PostApiOrders(CheckoutBodies)
    \/ PostCouponsValidate

SpecCheckout == CheckoutInit /\ [][CheckoutNext]_vars

----------------------------------------------------------------------------
(* Claims about order creation, checked under SpecCheckout.               *)

\* The order a postOrder step persisted.
PersistedBy(call) == call.op = "postOrder" /\ call.order > 0

\* C22: each order durably created with an applied coupon raises that
\* coupon's usedCount by exactly one in the step that creates it, and
\* coupon validation (canBeApplied, calculateDiscount behind POST
\* /api/coupons/validate) never changes usedCount.
C22_UsageCounted ==
    [][ /\ PersistedBy(last')
             /\ last'.body.appliedCoupon # NoCoupon
             /\ last'.body.appliedCoupon.code \in DOMAIN coupons
           => LET code == last'.body.appliedCoupon.code
              IN  coupons'[code].usedCount = coupons[code].usedCount + 1
        /\ last'.op = "validate"
           => \A c \in DOMAIN coupons :
                  coupons'[c].usedCount = coupons[c].usedCount
      ]_vars

\* C24: every order created at checkout starts with orderStatus pending
\* and paymentStatus pending, whatever the payment method, and with no
\* cancellation or return request filed.
C24_StartsPending ==
    [][ PersistedBy(last') =>
          LET order == orders'[last'.order]
          IN  /\ last'.order \notin DOMAIN orders
              /\ order.orderStatus = "pending"
              /\ order.paymentStatus = "pending"
              /\ ~Filed(order.cancelRequest)
              /\ ~Filed(order.returnRequest)
      ]_vars

\* An order paid by card was created.
C24_Witness ==
    /\ PersistedBy(last)
    /\ last.body.paymentMethod = "card"
    /\ last.response = "201"
    /\ orders[last.order].paymentStatus = "pending"

\* Quantity of (product, size) on a list of order items / of orders.
RECURSIVE SoldIn(_, _, _)
SoldIn(items, p, size) ==
    IF items = <<>> THEN 0
    ELSE (IF items[1].product = p /\ items[1].size = size
          THEN items[1].quantity ELSE 0) + SoldIn(Tail(items), p, size)

RECURSIVE SoldOver(_, _, _)
SoldOver(os, p, size) ==
    IF os = <<>> THEN 0
    ELSE SoldIn(os[1].items, p, size) + SoldOver(Tail(os), p, size)

\* Stock of a size of a product (0 when the product has no such size).
StockOf(product, size) ==
    IF HasSize(product, size)
    THEN product.sizes[FindSize(product.sizes, size)].stock ELSE 0

\* Some line of the body asks for more than the stock of its size.
ExceedsStock(prods, items) ==
    \E k \in 1..Len(items) :
        LET p == ResolveProduct(prods, items[k].productId)
        IN  p # NoProduct /\ items[k].quantity > StockOf(prods[p], items[k].size)

\* C27: order creation succeeds for a line item only if the requested
\* quantity is at most the stock of that size; a request whose quantity
\* exceeds the stock is rejected before any decrement; over any sequence
\* of orders the quantity sold of a (product, size) never exceeds the
\* stock that was available.
C27_NoOverselling ==
    /\ [](\A p \in DOMAIN products :
            \A j \in 1..Len(NamedProduct.sizes) :
                SoldOver(orders, p, NamedProduct.sizes[j].size)
                    <= NamedProduct.sizes[j].stock)
    /\ [][ last'.op = "postOrder" /\ ExceedsStock(products, last'.body.items)
             => /\ last'.order = 0
                /\ last'.response = "400"
                /\ products' = products
                /\ orders' = orders
         ]_vars

\* C28: order creation saves the order and decrements the stock of every
\* line item as one unit: a step that persists an order lowers the stock
\* of each (product, size) by the quantity ordered (stopping at zero),
\* name-fallback items included, and a step that persists no order leaves
\* every stock as it was.
C28_SaveAndDecrement ==
    [][ last'.op = "postOrder" =>
          IF last'.order > 0
          THEN \A p \in DOMAIN products :
                   \A j \in 1..Len(products[p].sizes) :
                       products'[p].sizes[j].stock =
                           Max(0, products[p].sizes[j].stock
                                  - SoldIn(orders'[last'.order].items, p,
                                           products[p].sizes[j].size))
          ELSE products' = products
      ]_vars

\* C30: the totals the handler computed for the order it persisted and
\* the totals Order.calculateTotals computes on that order agree, for
\* every item list and applied coupon the handler accepts.
C30_TotalsAgree ==
    [][ PersistedBy(last') =>
          LET order == orders'[last'.order]
              again == CalculateTotals(order, config)
          IN  /\ again.subtotal = order.subtotal
              /\ again.shippingCost = order.shippingCost
              /\ again.discount = order.discount
              /\ again.total = order.total
      ]_vars

----------------------------------------------------------------------------
(* The order routes, one request after the other: checkout, the status   *)
(* route of the orders router, the status route of the admin router and  *)
(* the customer's cancellation, the last three on the first order.       *)
(* last keeps the route, the order, the status asked for, the e-mails    *)
(* attempted with their outcomes and the response status.                *)

Customer == "u1"
StatusesNotified == {"shipped", "cancelled", "returned"}

\* The response after the e-mail attempts: an exception that escapes the
\* handler ends the request with the given error status.
ResponseAfter(results, success, failure) ==
    IF \E k \in DOMAIN results : results[k] = "throws"
    THEN failure ELSE success

\* PUT /api/orders/:id/status: order.updateStatus(status, notes), then an
\* e-mail when the status is shipped, cancelled or returned.
PutApiOrderStatus(i) ==
    /\ i \in DOMAIN orders
    /\ \E status \in OrderStatuses, notes \in {""}, email \in EmailOutcomes :
        LET outcome == UpdateStatus(orders[i], status, notes)
            mails == IF status \in StatusesNotified THEN <<email>> ELSE <<>>
            results == [k \in DOMAIN mails |-> TrySendEmail(mails[k])]
        IN  /\ orders' = Stored(i, outcome)
            /\ last' = [op |-> "putStatus", order |-> i, status |-> status,
                        emails |-> mails,
                        response |-> ResponseAfter(results, "200", "500")]
    /\ UNCHANGED <<products, coupons, config, req, redeem>>

\* PUT /orders/:id/status of the admin router:
\* Order.findByIdAndUpdate(id, { orderStatus: status }).
AdminPutOrderStatus(i) ==
    /\ i \in DOMAIN orders
    /\ \E status \in OrderStatuses :
        /\ orders' = [orders EXCEPT ![i].orderStatus = status]
        /\ last' = [op |-> "adminPutStatus", order |-> i, status |-> status,
                    emails |-> <<>>, response |-> "200"]
    /\ UNCHANGED <<products, coupons, config, req, redeem>>

\* POST /api/orders/:id/cancel by the customer who owns the order: the
\* order is cancelled at once, then the customer and the shop are mailed.
PostOrderCancel(i) ==
    /\ i \in DOMAIN orders
    /\ \E reason \in CancelReasons, toCustomer \in EmailOutcomes,
          toAdmin \in EmailOutcomes :
        LET mails == <<toCustomer, toAdmin>>
            results == [k \in DOMAIN mails |-> TrySendEmail(mails[k])]
        IN  /\ orders' = [orders EXCEPT
                            ![i].orderStatus = "cancelled",
                            ![i].cancelRequest =
                                [requestedAt |-> Now, reason |-> reason,
                                 description |-> Unset,
                                 status |-> "approved",
                                 processedAt |-> Now,
                                 processedBy |-> Customer]]
            /\ last' = [op |-> "postCancel", order |-> i,
                        status |-> "cancelled", emails |-> mails,
                        response |-> ResponseAfter(results, "200", "400")]
    /\ UNCHANGED <<products, coupons, config, req, redeem>>

RouteBodies ==
    { [items |-> << [productId |-> "p1", size |-> "200g",
                     quantity |-> 1] >>,
       paymentMethod |-> "cod", appliedCoupon |-> NoCoupon] }

OrdersNext ==
    \/ PostApiOrders(RouteBodies)
    \/ PutApiOrderStatus(1)
    \/ AdminPutOrderStatus(1)
    \/ PostOrderCancel(1)

SpecOrders == CheckoutInit /\ [][OrdersNext]_vars

----------------------------------------------------------------------------
(* Claims about the order routes, checked under SpecOrders.               *)

\* C21: once an order's status is cancelled or returned it never changes
\* again under any sequence of lifecycle operations, and a delivered
\* order can only move to returned.
C21_TerminalStatuses ==
    [][ \A i \in DOMAIN orders :
          /\ orders[i].orderStatus \in {"cancelled", "returned"}
               => orders'[i].orderStatus = orders[i].orderStatus
          /\ orders[i].orderStatus = "delivered"
               => orders'[i].orderStatus \in {"delivered", "returned"}
      ]_vars

\* C23: when sendEmail rejects during order creation, an admin status
\* update or a customer cancellation, the request still reports success
\* and the order is persisted in its new state.
C23_EmailFailureSwallowed ==
    [][ /\ last'.op \in {"postOrder", "putStatus", "postCancel"}
        /\ \E k \in DOMAIN last'.emails : last'.emails[k] = "rejected"
        => CASE last'.op = "postOrder" ->
                   /\ last'.response = "201"
                   /\ Len(orders') = Len(orders) + 1
                   /\ last'.order = Len(orders')
                   /\ orders'[last'.order].orderStatus = "pending"
             [] last'.op = "putStatus" ->
                   /\ last'.response = "200"
                   /\ orders'[last'.order].orderStatus = last'.status
             [] last'.op = "postCancel" ->
                   /\ last'.response = "200"
                   /\ orders'[last'.order].orderStatus = "cancelled"
                   /\ orders'[last'.order].cancelRequest.status = "approved"
      ]_vars

\* The shipped e-mail was rejected, the order is shipped and the request
\* was answered with success.
C23_Witness ==
    /\ last.op = "putStatus"
    /\ last.emails = <<"rejected">>
    /\ last.response = "200"
    /\ orders[last.order].orderStatus = "shipped"

\* C26: through POST /api/orders/:id/cancel an order becomes cancelled
\* only if its status before the request was pending, confirmed or
\* processing; a request against a shipped, delivered, cancelled or
\* returned order is rejected and leaves the order unchanged.
C26_CancelOnlyEarly ==
    [][ last'.op = "postCancel" =>
          LET before == orders[last'.order]
              after == orders'[last'.order]
          IN  IF before.orderStatus \in CancellableStatuses
              THEN last'.response = "200" => after.orderStatus = "cancelled"
              ELSE /\ last'.response = "400"
                   /\ after = before
      ]_vars

\* C29: in every reachable state an order whose status is shipped has
\* shippingDetails.shippedAt set and an order whose status is delivered
\* has shippingDetails.deliveredAt set.
C29_Stamped ==
    \A i \in DOMAIN orders :
        /\ orders[i].orderStatus = "shipped"
             => orders[i].shippingDetails.shippedAt # Unset
        /\ orders[i].orderStatus = "delivered"
             => orders[i].shippingDetails.deliveredAt # Unset

----------------------------------------------------------------------------
(* The catalogue: creation and deletion of products and coupons through  *)
(* the admin router and through the products and coupons routers.  last  *)
(* keeps the route, the record addressed and the response status.        *)

CatalogueCodes == {"SAVE10", "FLAT50"}

\* A product document with its isActive flag at the schema default.
CatalogueProduct ==
    [name |-> NamedProduct.name, sizes |-> NamedProduct.sizes,
     inStock |-> NamedProduct.inStock, isActive |-> TRUE]

\* Model.findByIdAndDelete(id): the document leaves the collection.
FindByIdAndDelete(collection, id) ==
    [k \in DOMAIN collection \ {id} |-> collection[k]]

\* Model.findByIdAndUpdate(id, { isActive: false })
Deactivate(collection, id) == [collection EXCEPT ![id].isActive = FALSE]

Answered(op, id, response) == [op |-> op, id |-> id, response |-> response]

\* POST /products of the admin router: new Product(req.body).save()
AdminPostProduct ==
    /\ \E id \in ObjectIds \ DOMAIN products :
        /\ products' = (id :> CatalogueProduct) @@ products
        /\ last' = Answered("adminPostProduct", id, "201")
    /\ UNCHANGED <<orders, coupons, config, req, redeem>>

\* DELETE /api/products/:id
DeleteApiProduct ==
    /\ \E id \in ObjectIds :
        IF id \in DOMAIN products
        THEN /\ products' = Deactivate(products, id)
             /\ last' = Answered("deleteProduct", id, "200")
        ELSE /\ UNCHANGED products
             /\ last' = Answered("deleteProduct", id, "404")
    /\ UNCHANGED <<orders, coupons, config, req, redeem>>

\* DELETE /products/:id of the admin router
AdminDeleteProduct ==
    /\ \E id \in ObjectIds :
        IF id \in DOMAIN products
        THEN /\ products' = FindByIdAndDelete(products, id)
             /\ last' = Answered("adminDeleteProduct", id, "200")
        ELSE /\ UNCHANGED products
             /\ last' = Answered("adminDeleteProduct", id, "404")
    /\ UNCHANGED <<orders, coupons, config, req, redeem>>

\* POST /coupons of the admin router: new Coupon(req.body).save(); the
\* unique index on code rejects a second coupon with a stored code.
AdminPostCoupon ==
    /\ \E code \in CatalogueCodes :
        IF code \in DOMAIN coupons
        THEN /\ UNCHANGED coupons
             /\ last' = Answered("adminPostCoupon", code, "500")
        ELSE /\ coupons' = (code :> NewCoupon(code, -1)) @@ coupons
             /\ last' = Answered("adminPostCoupon", code, "201")
    /\ UNCHANGED <<products, orders, config, req, redeem>>

\* DELETE /api/coupons/:id
DeleteApiCoupon ==
    /\ \E code \in CatalogueCodes :
        IF code \in DOMAIN coupons
        THEN /\ coupons' = Deactivate(coupons, code)
             /\ last' = Answered("deleteCoupon", code, "200")
        ELSE /\ UNCHANGED coupons
             /\ last' = Answered("deleteCoupon", code, "404")
    /\ UNCHANGED <<products, orders, config, req, redeem>>

\* DELETE /coupons/:id of the admin router
AdminDeleteCoupon ==
    /\ \E code \in CatalogueCodes :
        IF code \in DOMAIN coupons
        THEN /\ coupons' = FindByIdAndDelete(coupons, code)
             /\ last' = Answered("adminDeleteCoupon", code, "200")
        ELSE /\ UNCHANGED coupons
             /\ last' = Answered("adminDeleteCoupon", code, "404")
    /\ UNCHANGED <<products, orders, config, req, redeem>>

CatalogueInit ==
    /\ products = [p \in ProductIds |-> CatalogueProduct]
    /\ orders = <<>>
    /\ coupons = [c \in CouponCodes |-> NewCoupon(c, -1)]
    /\ config = InitialConfig
    /\ req = [r \in Requests |-> IdleFrame]
    /\ redeem = <<>>
    /\ last = NoCall

CatalogueNext ==
    \/ AdminPostProduct
    \/ DeleteApiProduct
    \/ AdminDeleteProduct
    \/ AdminPostCoupon
    \/ DeleteApiCoupon
    \/ AdminDeleteCoupon

SpecCatalogue == CatalogueInit /\ [][CatalogueNext]_vars

----------------------------------------------------------------------------
(* Claims about the catalogue, checked under SpecCatalogue.               *)

\* C25: no operation removes a Product or Coupon record: a record that
\* exists, exists in every later state, and every delete operation on a
\* product or a coupon that succeeds only sets its isActive flag to false.
C25_SoftDeleteOnly ==
    [][ /\ \A p \in DOMAIN products : p \in DOMAIN products'
        /\ \A c \in DOMAIN coupons : c \in DOMAIN coupons'
        /\ last'.op \in {"deleteProduct", "adminDeleteProduct"}
             /\ last'.response = "200"
           => /\ last'.id \in DOMAIN products'
              /\ products'[last'.id] =
                     [products[last'.id] EXCEPT !.isActive = FALSE]
        /\ last'.op \in {"deleteCoupon", "adminDeleteCoupon"}
             /\ last'.response = "200"
           => /\ last'.id \in DOMAIN coupons'
              /\ coupons'[last'.id] =
                     [coupons[last'.id] EXCEPT !.isActive = FALSE]
      ]_vars

============================================================================
